---- MODULE Spec2Model ----
(***************************************************************************)
(* Model of the InterviewOS turn engine (backend/interview/engine.py) and  *)
(* of the HTTP turn handler that persists its results                      *)
(* (backend/interview/views.py, _handle_next_turn).                        *)
(*                                                                         *)
(* Text is a sequence of tokens.  A token is one character ("<", ">", "*", *)
(* " ", a letter) or an atomic word: the three signal names, the speaker   *)
(* label "Taylor:", or a fixed phrase of the program.  CharLen gives the   *)
(* number of characters a token stands for.                                *)
(***************************************************************************)
EXTENDS Integers, Sequences, FiniteSets, TLC

(***************************************************************************)
(* Bounds of the model.                                                    *)
(***************************************************************************)
\* number of message rows a session may hold before requests stop arriving,
\* when the caller waits for each response and when it does not
MaxMessages == 5
MaxMessagesConcurrent == 4
\* the same, when the caller does not wait and the clock moves
MaxMessagesOverlapped == 3
\* number of requests delivered before every handler has returned, when the
\* caller does not wait
MaxBurst == 2
\* longest history handed to run_engine when it is called on its own
MaxHistory == 3
\* last value of the wall clock
MaxClock == 2
\* number of pieces a reply of the backend is put together from, when
\* run_engine is called on its own
MaxChunks == 4
\* number of user turns the voice agent hears
MaxTurns == 3

(***************************************************************************)
(* Program constants.                                                      *)
(***************************************************************************)
\* engine.py:38-39, read from the environment (defaults 7 and 14); the
\* model runs the configuration MAX_INTRO_TURNS=1 MAX_EXP_TURNS=2, which
\* keeps the defaults' ratio.
MAX_INTRO_TURNS == 1
MAX_EXP_TURNS == 2
\* settings.INTRO_TIMEOUT_S / settings.EXPERIENCE_TIMEOUT_S (views.py:186-188)
INTRO_TIMEOUT_S == 2
EXPERIENCE_TIMEOUT_S == 2

\* engine.py:33
MODEL_FALLBACKS == <<"gemini-2.0-flash", "gemini-2.5-flash-lite", "gemini-2.0-flash-lite">>

Stages == {"intro", "experience", "done"}
Signals == {"STAY", "MOVE_TO_EXPERIENCE", "MOVE_TO_DONE"}
EventTypes == {"start", "user_turn", "timeout"}

\* position of a stage in the order intro -> experience -> done
StageRank(s) == CASE s = "intro" -> 0 [] s = "experience" -> 1 [] s = "done" -> 2

(***************************************************************************)
(* Text.                                                                   *)
(***************************************************************************)
Whitespace == {" ", "\n"}

ALREADY_COMPLETE == <<"This session is already complete. Please create a new session.">>
GENERIC_EXPERIENCE == <<"Could you tell me more about that?">>
GENERIC_OTHER == <<"Please go on.">>
START_MSG == <<"[The interview is starting. Greet the candidate and ask your first intro question.]">>
CONTINUE_MSG == <<"[Continue the interview.]">>

Phrases ==
  { ALREADY_COMPLETE[1], GENERIC_EXPERIENCE[1], GENERIC_OTHER[1], START_MSG[1],
    CONTINUE_MSG[1], "[Interview begins]", "Hi ", "! Welcome - I'm excited to chat with you about the ",
    " position. Could you kick things off by telling me a bit about yourself?",
    "I'd love to hear about a project you've worked on recently. What was the problem you were solving, and what was your role?",
    "Thanks for a great conversation! ... Best of luck - you've got this!",
    "Candidate", "AI Algorithm Engineer Intern" }

\* number of characters of a token (len() counts characters)
CharLen(tok) ==
  IF tok = "Taylor:" THEN 7
  ELSE IF tok = "STAY" THEN 4
  ELSE IF tok = "MOVE_TO_EXPERIENCE" THEN 18
  ELSE IF tok = "MOVE_TO_DONE" THEN 12
  ELSE IF tok \in Phrases THEN 9
  ELSE 1

RECURSIVE TextLen(_)
TextLen(s) == IF s = <<>> THEN 0 ELSE CharLen(Head(s)) + TextLen(Tail(s))

Sig(word) == <<"<", "<", "<", word, ">", ">", ">">>

\* _SIGNAL_RE matches at position i of s
SignalAt(s, i) ==
  /\ i + 6 <= Len(s)
  /\ SubSeq(s, i, i + 2) = <<"<", "<", "<">>
  /\ s[i + 3] \in Signals
  /\ SubSeq(s, i + 4, i + 6) = <<">", ">", ">">>

\* _SIGNAL_RE.sub("", s): every non-overlapping match, leftmost first, removed
RECURSIVE RemoveSignals(_)
RemoveSignals(s) ==
  IF s = <<>> THEN <<>>
  ELSE IF SignalAt(s, 1) THEN RemoveSignals(SubSeq(s, 8, Len(s)))
  ELSE <<Head(s)>> \o RemoveSignals(Tail(s))

RECURSIVE LStrip(_)
LStrip(s) == IF s # <<>> /\ Head(s) \in Whitespace THEN LStrip(Tail(s)) ELSE s

RECURSIVE RStrip(_)
RStrip(s) ==
  IF s # <<>> /\ s[Len(s)] \in Whitespace THEN RStrip(SubSeq(s, 1, Len(s) - 1)) ELSE s

\* str.strip()
Strip(s) == RStrip(LStrip(s))

\* re.sub("^" + prefix + "\s*", "", s)
RemovePrefix(prefix, s) ==
  IF Len(s) >= Len(prefix) /\ SubSeq(s, 1, Len(prefix)) = prefix
  THEN LStrip(SubSeq(s, Len(prefix) + 1, Len(s)))
  ELSE s

BoldLabel == <<"*", "*", "Taylor:", "*", "*">>
PlainLabel == <<"Taylor:">>

\* the two re.sub calls that drop a leading speaker label
StripLabels(s) == RemovePrefix(PlainLabel, RemovePrefix(BoldLabel, s))

\* _SIGNAL_RE.search(raw): the signal word of the first match, STAY if none
FirstSignal(raw) ==
  LET hits == { i \in 1..Len(raw) : SignalAt(raw, i) }
  IN  IF hits = {} THEN "STAY"
      ELSE raw[(CHOOSE i \in hits : \A j \in hits : i <= j) + 3]

\* engine._parse
_parse(raw) ==
  [ clean |-> StripLabels(Strip(RemoveSignals(raw))), signal |-> FirstSignal(raw) ]

\* engine._count
_count(history, role, stage) ==
  Cardinality({ i \in 1..Len(history) : history[i].role = role /\ history[i].stage = stage })

(***************************************************************************)
(* The generation backend.  One outcome per candidate model: a success     *)
(* carrying the raw reply, a rate-limit-class error ("429" or              *)
(* "RESOURCE_EXHAUSTED" in the message), or any other error.               *)
(***************************************************************************)
OPENER == <<"[Interview begins]">>

\* the user_msg of a timeout that moved the stage
InactivityMsg(stage) ==
  <<"[Due to inactivity, transition smoothly to the ", stage, " stage now.]">>

Turn(role, text) == [role |-> role, text |-> text]

\* engine._build_contents, first loop: system rows and rows without text are
\* dropped, agent rows become model turns with signal tokens and a leading
\* speaker label taken out, every other row becomes a user turn
RECURSIVE RawTurns(_)
RawTurns(history) ==
  IF history = <<>> THEN <<>>
  ELSE LET msg == Head(history)
           text == Strip(msg.text)
           gemini_role == IF msg.role = "agent" THEN "model" ELSE "user"
           kept == IF gemini_role = "model"
                   THEN StripLabels(Strip(RemoveSignals(text)))
                   ELSE text
       IN  IF text = <<>> \/ msg.role = "system" \/ kept = <<>>
           THEN RawTurns(Tail(history))
           ELSE <<Turn(gemini_role, kept)>> \o RawTurns(Tail(history))

\* engine._build_contents, second loop: a turn of the role of the one before
\* it is joined to it with a newline
RECURSIVE MergeTurns(_, _)
MergeTurns(merged, raw) ==
  IF raw = <<>> THEN merged
  ELSE LET m == Head(raw)
           n == Len(merged)
       IN  IF n > 0 /\ merged[n].role = m.role
           THEN MergeTurns([merged EXCEPT ![n].text = @ \o <<"\n">> \o m.text], Tail(raw))
           ELSE MergeTurns(Append(merged, m), Tail(raw))

\* _build_contents without its second loop
_build_contents_nomerge(history) == RawTurns(history)

\* engine._build_contents
_build_contents(history) == MergeTurns(<<>>, RawTurns(history))

\* engine.run_engine, the current user message
UserMsg(event_type, user_text, session_stage, stage) ==
  IF event_type = "start" THEN START_MSG
  ELSE IF event_type = "timeout" /\ session_stage # stage THEN InactivityMsg(stage)
  ELSE IF user_text # <<>> THEN user_text
  ELSE CONTINUE_MSG

\* engine.run_engine, the user message appended or merged into a trailing
\* user turn
AppendUser(contents, user_msg) ==
  LET n == Len(contents)
  IN  IF n > 0 /\ contents[n].role = "user"
      THEN [contents EXCEPT ![n].text = @ \o <<"\n">> \o user_msg]
      ELSE Append(contents, Turn("user", user_msg))

\* EnsureFirstUser leaving the sequence as it is
EnsureFirstUser_asis(contents) == contents

\* engine.run_engine, the opener put before a sequence that starts with a
\* model turn
EnsureFirstUser(contents) ==
  IF contents # <<>> /\ contents[1].role = "model"
  THEN <<Turn("user", OPENER)>> \o contents
  ELSE contents

Ok(raw) == [kind |-> "ok", text |-> raw]
RateLimited == [kind |-> "rate", text |-> <<>>]
OtherError == [kind |-> "error", text |-> <<>>]

\* GenerateFrom going on to the next candidate after any error
RECURSIVE GenerateFrom_retry(_, _, _)
GenerateFrom_retry(outcomes, k, called) ==
  IF k > Len(MODEL_FALLBACKS)
  THEN [raw_text |-> <<>>, last_err |-> (called # <<>>), called |-> called]
  ELSE LET o == outcomes[k]
           now_called == Append(called, k)
       IN  IF o.kind = "ok"
           THEN [raw_text |-> o.text, last_err |-> FALSE, called |-> now_called]
           ELSE GenerateFrom_retry(outcomes, k + 1, now_called)

\* engine.run_engine, the loop over MODEL_FALLBACKS: the state after trying
\* the candidates k, k+1, ... with `called` the candidates tried so far
RECURSIVE GenerateFrom(_, _, _)
GenerateFrom(outcomes, k, called) ==
  IF k > Len(MODEL_FALLBACKS)
  THEN [raw_text |-> <<>>, last_err |-> (called # <<>>), called |-> called]
  ELSE LET o == outcomes[k]
           now_called == Append(called, k)
       IN  IF o.kind = "ok"
           THEN [raw_text |-> o.text, last_err |-> FALSE, called |-> now_called]
           ELSE IF o.kind = "rate"
           THEN GenerateFrom(outcomes, k + 1, now_called)
           ELSE [raw_text |-> <<>>, last_err |-> TRUE, called |-> now_called]

Generate(outcomes) == GenerateFrom(outcomes, 1, <<>>)

\* engine.run_engine, the fallback responses
CannedReply(stage, candidate_name, role_name) ==
  IF stage = "intro"
  THEN <<"Hi ">> \o candidate_name
         \o <<"! Welcome - I'm excited to chat with you about the ">> \o role_name
         \o <<" position. Could you kick things off by telling me a bit about yourself?", " ">>
         \o Sig("STAY")
  ELSE IF stage = "experience"
  THEN <<"I'd love to hear about a project you've worked on recently. What was the problem you were solving, and what was your role?", " ">>
         \o Sig("STAY")
  ELSE <<"Thanks for a great conversation! ... Best of luck - you've got this!", " ">>
         \o Sig("MOVE_TO_DONE")

\* TimeoutGuard with the second branch sending experience back to intro
TimeoutGuard_restart(stage, event_type) ==
  IF event_type = "timeout"
  THEN (IF stage = "intro" THEN "experience"
        ELSE IF stage = "experience" THEN "intro"
        ELSE stage)
  ELSE stage

\* engine.run_engine, "Timeout -> force transition"
TimeoutGuard(stage, event_type) ==
  IF event_type = "timeout"
  THEN (IF stage = "intro" THEN "experience"
        ELSE IF stage = "experience" THEN "done"
        ELSE stage)
  ELSE stage

\* engine.run_engine, "Guard-rail transitions by count": two successive ifs
CountGuard(stage, history) ==
  LET intro_n == _count(history, "agent", "intro")
      exp_n == _count(history, "agent", "experience")
      s1 == IF stage = "intro" /\ intro_n >= MAX_INTRO_TURNS THEN "experience" ELSE stage
  IN  IF s1 = "experience" /\ exp_n >= MAX_EXP_TURNS THEN "done" ELSE s1

\* PostGuardStage with the count guard applied before the timeout guard
PostGuardStage_countfirst(session_stage, event_type, history) ==
  TimeoutGuard(CountGuard(session_stage, history), event_type)

\* the stage the prompt and the generation see
PostGuardStage(session_stage, event_type, history) ==
  CountGuard(TimeoutGuard(session_stage, event_type), history)

\* ApplySignal without the final clamp on stage done
ApplySignal_noclamp(stage, signal) ==
  IF signal = "MOVE_TO_EXPERIENCE" /\ stage = "intro"
  THEN [next_stage |-> "experience", done |-> FALSE]
  ELSE IF signal = "MOVE_TO_DONE"
  THEN [next_stage |-> "done", done |-> TRUE]
  ELSE [next_stage |-> stage, done |-> FALSE]

\* ApplySignal taking MOVE_TO_DONE from experience only, as MOVE_TO_EXPERIENCE
\* is taken from intro only
ApplySignal_fromexperience(stage, signal) ==
  LET by_signal ==
        IF signal = "MOVE_TO_EXPERIENCE" /\ stage = "intro"
        THEN [next_stage |-> "experience", done |-> FALSE]
        ELSE IF signal = "MOVE_TO_DONE" /\ stage = "experience"
        THEN [next_stage |-> "done", done |-> TRUE]
        ELSE [next_stage |-> stage, done |-> FALSE]
  IN  IF stage = "done" THEN [next_stage |-> "done", done |-> TRUE] ELSE by_signal

\* engine.run_engine, "Apply signal", and the final clamp on stage done
ApplySignal(stage, signal) ==
  LET by_signal ==
        IF signal = "MOVE_TO_EXPERIENCE" /\ stage = "intro"
        THEN [next_stage |-> "experience", done |-> FALSE]
        ELSE IF signal = "MOVE_TO_DONE"
        THEN [next_stage |-> "done", done |-> TRUE]
        ELSE [next_stage |-> stage, done |-> FALSE]
  IN  IF stage = "done" THEN [next_stage |-> "done", done |-> TRUE] ELSE by_signal

\* engine.run_engine, the request it puts together for the backend:
\* `normalized` is what _build_contents gave, `contents` the sequence handed
\* to generate_content; no request is made for a session that is done
BackendRequest(event_type, user_text, history, session_stage) ==
  IF session_stage = "done" THEN [normalized |-> <<>>, contents |-> <<>>]
  ELSE LET stage == PostGuardStage(session_stage, event_type, history)
           normalized == _build_contents(history)
           user_msg == UserMsg(event_type, user_text, session_stage, stage)
           contents == EnsureFirstUser(AppendUser(normalized, user_msg))
       IN  [normalized |-> normalized, contents |-> contents]

\* Spoken replacing an empty reply only
Spoken_nonempty(clean, stage) ==
  IF clean = <<>>
  THEN (IF stage = "experience" THEN GENERIC_EXPERIENCE ELSE GENERIC_OTHER)
  ELSE clean

\* engine.run_engine, the generic prompt in place of an empty or short reply
Spoken(clean, stage) ==
  IF clean = <<>> \/ TextLen(clean) < 3
  THEN (IF stage = "experience" THEN GENERIC_EXPERIENCE ELSE GENERIC_OTHER)
  ELSE clean

\* EngineBody applying the signal to the stage the session was loaded with
EngineBody_sessionstage(candidate_name, role_name, event_type, user_text, history, session_stage, outcomes) ==
  LET stage == PostGuardStage(session_stage, event_type, history)
      gen == Generate(outcomes)
      raw_text == IF gen.last_err
                  THEN CannedReply(stage, candidate_name, role_name)
                  ELSE gen.raw_text
      parsed == _parse(raw_text)
      reply == Spoken(parsed.clean, stage)
      ap == ApplySignal(session_stage, parsed.signal)
  IN  [ assistant_text |-> reply, next_stage |-> ap.next_stage, done |-> ap.done,
        called |-> gen.called, stage |-> stage, signal |-> parsed.signal ]

\* EngineBody handing the backend's failure to the caller in place of the
\* fallback responses
EngineBody_surface(candidate_name, role_name, event_type, user_text, history, session_stage, outcomes) ==
  LET stage == PostGuardStage(session_stage, event_type, history)
      gen == Generate(outcomes)
      parsed == _parse(gen.raw_text)
      reply == Spoken(parsed.clean, stage)
      ap == ApplySignal(stage, parsed.signal)
  IN  IF gen.last_err
      THEN [ assistant_text |-> <<>>, next_stage |-> "error", done |-> FALSE,
             called |-> gen.called, stage |-> stage, signal |-> "STAY" ]
      ELSE [ assistant_text |-> reply, next_stage |-> ap.next_stage, done |-> ap.done,
             called |-> gen.called, stage |-> stage, signal |-> parsed.signal ]

\* engine.run_engine past the "Already done" return.  `outcomes` is what the
\* backend answers to each candidate model; `called` (the candidates tried),
\* `stage` (the post-guard stage) and `signal` (the parsed signal) are
\* reported beside the returned dictionary.
EngineBody(candidate_name, role_name, event_type, user_text, history, session_stage, outcomes) ==
  LET stage == PostGuardStage(session_stage, event_type, history)
      gen == Generate(outcomes)
      raw_text == IF gen.last_err
                  THEN CannedReply(stage, candidate_name, role_name)
                  ELSE gen.raw_text
      parsed == _parse(raw_text)
      reply == Spoken(parsed.clean, stage)
      ap == ApplySignal(stage, parsed.signal)
  IN  [ assistant_text |-> reply, next_stage |-> ap.next_stage, done |-> ap.done,
        called |-> gen.called, stage |-> stage, signal |-> parsed.signal ]

\* run_engine without the "Already done" return
run_engine_noreturn(candidate_name, role_name, event_type, user_text, history, session_stage, outcomes) ==
  EngineBody(candidate_name, role_name, event_type, user_text, history, session_stage, outcomes)

\* engine.run_engine
run_engine(candidate_name, role_name, event_type, user_text, history, session_stage, outcomes) ==
  IF session_stage = "done"
  THEN [ assistant_text |-> ALREADY_COMPLETE, next_stage |-> "done", done |-> TRUE,
         called |-> <<>>, stage |-> "done", signal |-> "STAY" ]
  ELSE EngineBody(candidate_name, role_name, event_type, user_text, history,
                  session_stage, outcomes)

(***************************************************************************)
(* The turn handler, views._handle_next_turn, over the stored session row  *)
(* and its message rows.  Each handler works on the copy of the session    *)
(* row it loaded; save(update_fields=...) writes that copy's fields back.  *)
(* The columns last_turn_at, ended_at, updated_at and the meta key         *)
(* engine_event_type are written and never read, and are left out.         *)
(***************************************************************************)
VARIABLES
  session,      \* the InterviewSession row
  messages,     \* the InterviewMessage rows of the session, by created_at
  clock,        \* timezone.now()
  pc,           \* where each handler is in _handle_next_turn
  h,            \* the local variables of each handler
  resp,         \* the last response each handler returned
  first_reply,  \* per event_id, the assistant_text of the first success response
  epoch,        \* the stage and rows when the handlers now in flight began, and
                \* the requests received since
  call,         \* the arguments of a direct call of run_engine
  result,       \* what that call returned
  agent         \* the RouterAgent of the voice agent: its fields, the user
                \* turns completed, the requests it sent, those still awaited

hvars == <<session, messages, clock, pc, h, resp, first_reply, epoch>>
vars == <<session, messages, clock, pc, h, resp, first_reply, epoch, call, result, agent>>

\* Python's None in _pending_user_text
None == <<"(None)">>

\* RouterAgent.__init__; `turns` are the transcripts of the user turns
\* completed so far and `pending_turn` the one _pending_user_text came from
NewAgent ==
  [ _did_start |-> FALSE, _pending_user_text |-> None, pending_turn |-> 0,
    turns |-> <<>>, sent |-> <<>>, awaited |-> {}, spoken |-> <<>> ]

Procs == {"p1", "p2"}
EventIds == {"e1"}
NoReply == <<"(none)">>

\* request payloads, before the handler normalises them
BadForms == {"invalid_json", "no_session_id", "unknown_session"}
PayloadEventTypes == EventTypes \cup {""}
PayloadUserTexts == { <<>>, <<" ">>, <<"h", "i">> }
PayloadEventIds == EventIds \cup {""}

\* raw replies of the generation backend
RawReplies ==
  { <<"o", "k", ".", " ">> \o Sig("STAY"),
    <<"g", "o", " ", "o", "n">> \o Sig("MOVE_TO_EXPERIENCE"),
    <<"b", "y", "e", "\n">> \o Sig("MOVE_TO_DONE") }

OutcomeSet == { Ok(r) : r \in RawReplies } \cup {RateLimited, OtherError}
\* the answers of the candidates from the k-th on, the k-th being reached.
\* The candidates the loop of run_engine does not reach give no answer: one
\* representative per run of the loop, the unreached answers being OtherError
RECURSIVE RunsFrom(_)
RunsFrom(k) ==
  IF k > Len(MODEL_FALLBACKS) THEN { <<>> }
  ELSE LET unreached == [j \in 1..(Len(MODEL_FALLBACKS) - k) |-> OtherError]
       IN  { <<o>> \o unreached : o \in OutcomeSet \ {RateLimited} }
             \cup { <<RateLimited>> \o rest : rest \in RunsFrom(k + 1) }

BackendRuns == RunsFrom(1)

\* models.InterviewMessage
Message(role, stage, text, event_id) ==
  [role |-> role, stage |-> stage, text |-> text, event_id |-> event_id]

NoOut == [assistant_text |-> <<>>, next_stage |-> "intro", done |-> FALSE,
          called |-> <<>>, stage |-> "intro", signal |-> "STAY",
          normalized |-> <<>>, contents |-> <<>>]

\* the dictionary run_engine returns
Returned(r) == [assistant_text |-> r.assistant_text, next_stage |-> r.next_stage, done |-> r.done]
NoReturn == Returned(NoOut)

NoLocals ==
  [ event_type |-> "", user_text |-> <<>>, event_id |-> "", now |-> 0,
    session |-> [status |-> "created", stage |-> "intro", stage_started_at |-> 0,
                 candidate_name |-> <<>>, role |-> <<>>],
    out |-> NoReturn ]

NoResp == [status |-> 0, assistant_text |-> <<>>, stage |-> "", done |-> FALSE]
ErrorResp(code) == [status |-> code, assistant_text |-> <<>>, stage |-> "", done |-> FALSE]
OkResp(text, stage, done) ==
  [status |-> 200, assistant_text |-> text, stage |-> stage, done |-> done]

NoEpoch == [stage |-> "", rows |-> 0, requests |-> <<>>]

\* a request is received: with no handler in flight a new epoch begins
Opened(request) ==
  IF \A q \in Procs : pc[q] = "idle"
  THEN [stage |-> session.stage, rows |-> Len(messages), requests |-> <<request>>]
  ELSE [epoch EXCEPT !.requests = Append(@, request)]

\* handler p returns: the epoch ends with the last handler in flight
Closed(p) == IF \A q \in Procs \ {p} : pc[q] = "idle" THEN NoEpoch ELSE epoch

NoCall == [event_type |-> "", user_text |-> <<>>, history |-> <<>>, session_stage |-> "",
           outcomes |-> <<>>]

\* views.py:43-44 and 49-57: the session row create_session inserts for a
\* payload; a missing or empty name or role takes its default
CreateSession(candidate_name, role) ==
  [ status |-> "created", stage |-> "intro", stage_started_at |-> 0,
    candidate_name |-> Strip(IF candidate_name = <<>> THEN <<"Candidate">> ELSE candidate_name),
    role |-> Strip(IF role = <<>> THEN <<"AI Algorithm Engineer Intern">> ELSE role) ]

\* views.create_session: the row and the "Session created." system message
InitSession(candidate_name, role) ==
  /\ session = CreateSession(candidate_name, role)
  /\ messages = << Message("system", "intro", <<"Session created.">>, "") >>
  /\ clock = 0
  /\ pc = [p \in Procs |-> "idle"]
  /\ h = [p \in Procs |-> NoLocals]
  /\ resp = [p \in Procs |-> NoResp]
  /\ first_reply = [e \in EventIds |-> NoReply]
  /\ epoch = NoEpoch

\* a session created with no candidate_name and no role in the payload
InitHandler == InitSession(<<>>, <<>>)

Init ==
  /\ InitHandler
  /\ call = NoCall
  /\ result = NoOut
  /\ agent = NewAgent

Tick ==
  /\ clock < MaxClock
  /\ clock' = clock + 1
  /\ UNCHANGED <<session, messages, pc, h, resp, first_reply, epoch>>
  /\ UNCHANGED <<call, result, agent>>

\* a success response for event_id: remember the first one
NoteReply(event_id, text) ==
  IF event_id \in EventIds /\ first_reply[event_id] = NoReply
  THEN [first_reply EXCEPT ![event_id] = text]
  ELSE first_reply

\* views.py:120-138: parse the payload, look the session up, read the clock
Receive(p, event_type, user_text, event_id) ==
  /\ pc[p] = "idle"
  /\ h' = [h EXCEPT ![p] =
             [ event_type |-> (IF event_type = "" THEN "user_turn" ELSE event_type),
               user_text |-> Strip(user_text),
               event_id |-> event_id,
               now |-> clock,
               session |-> session,
               out |-> NoReturn ]]
  /\ pc' = [pc EXCEPT ![p] = "mark"]
  /\ epoch' = Opened([event_type |-> (IF event_type = "" THEN "user_turn" ELSE event_type),
                       user_text |-> Strip(user_text), event_id |-> event_id])
  /\ UNCHANGED <<session, messages, clock, resp, first_reply>>
  /\ UNCHANGED <<call, result, agent>>

\* views.py:120-136: a payload that is not JSON, has no session_id, or names
\* no stored session is answered with an error
Reject(p, form) ==
  /\ pc[p] = "idle"
  /\ resp' = [resp EXCEPT ![p] = ErrorResp(IF form = "unknown_session" THEN 404 ELSE 400)]
  /\ pc' = [pc EXCEPT ![p] = "respond"]
  /\ epoch' = Opened([event_type |-> "", user_text |-> <<>>, event_id |-> ""])
  /\ UNCHANGED <<session, messages, clock, h, first_reply>>
  /\ UNCHANGED <<call, result, agent>>

\* views.py:140-146: mark running on first interaction
MarkRunning(p) ==
  /\ pc[p] = "mark"
  /\ IF h[p].session.status = "created"
     THEN /\ h' = [h EXCEPT ![p].session.status = "running"]
          /\ session' = [session EXCEPT !.status = "running",
                                        !.stage_started_at = h[p].session.stage_started_at]
     ELSE UNCHANGED <<h, session>>
  /\ pc' = [pc EXCEPT ![p] = "idem"]
  /\ UNCHANGED <<messages, clock, resp, first_reply, epoch>>
  /\ UNCHANGED <<call, result, agent>>

\* EventSeen looking at the newest message only
EventSeen_newest(msgs, event_id) ==
  /\ event_id # ""
  /\ msgs # <<>>
  /\ msgs[Len(msgs)].event_id = event_id

\* views.py:150: a stored message carries this event_id
EventSeen(msgs, event_id) ==
  /\ event_id # ""
  /\ \E i \in 1..Len(msgs) : msgs[i].event_id = event_id

\* views.py:152-159: the text of the latest agent message, "" if none
LastAgentText(msgs) ==
  LET agents == { i \in 1..Len(msgs) : msgs[i].role = "agent" }
  IN  IF agents = {} THEN <<>>
      ELSE msgs[CHOOSE i \in agents : \A j \in agents : j <= i].text

\* Idempotency without the user_text validation
Idempotency_novalidate(p) ==
  /\ pc[p] = "idem"
  /\ IF EventSeen(messages, h[p].event_id)
     THEN /\ resp' = [resp EXCEPT ![p] =
                        OkResp(LastAgentText(messages), h[p].session.stage,
                               h[p].session.stage = "done")]
          /\ pc' = [pc EXCEPT ![p] = "respond"]
     ELSE /\ pc' = [pc EXCEPT ![p] =
                      IF h[p].event_type = "user_turn" THEN "user" ELSE "engine"]
          /\ UNCHANGED resp
  /\ UNCHANGED <<session, messages, clock, h, first_reply, epoch>>
  /\ UNCHANGED <<call, result, agent>>

\* views.py:148-166: the idempotency check, then the user_text validation
Idempotency(p) ==
  /\ pc[p] = "idem"
  /\ IF EventSeen(messages, h[p].event_id)
     THEN /\ resp' = [resp EXCEPT ![p] =
                        OkResp(LastAgentText(messages), h[p].session.stage,
                               h[p].session.stage = "done")]
          /\ pc' = [pc EXCEPT ![p] = "respond"]
     ELSE IF h[p].event_type = "user_turn" /\ h[p].user_text = <<>>
     THEN /\ resp' = [resp EXCEPT ![p] = ErrorResp(400)]
          /\ pc' = [pc EXCEPT ![p] = "respond"]
     ELSE /\ pc' = [pc EXCEPT ![p] =
                      IF h[p].event_type = "user_turn" THEN "user" ELSE "engine"]
          /\ UNCHANGED resp
  /\ UNCHANGED <<session, messages, clock, h, first_reply, epoch>>
  /\ UNCHANGED <<call, result, agent>>

\* views.py:168-179: store the user message
StoreUser(p) ==
  /\ pc[p] = "user"
  /\ messages' = Append(messages,
                   Message("user", h[p].session.stage, h[p].user_text, h[p].event_id))
  /\ pc' = [pc EXCEPT ![p] = "engine"]
  /\ UNCHANGED <<session, clock, h, resp, first_reply, epoch>>
  /\ UNCHANGED <<call, result, agent>>

\* EngineEventType handing the event type of the request on as it is
EngineEventType_asis(event_type, stage, elapsed_s) == event_type

\* views.py:181-189: the time-based override of the event type
EngineEventType(event_type, stage, elapsed_s) ==
  IF stage = "experience" /\ elapsed_s >= EXPERIENCE_TIMEOUT_S THEN "timeout"
  ELSE IF stage = "intro" /\ elapsed_s >= INTRO_TIMEOUT_S THEN "timeout"
  ELSE event_type

\* views.py:181-207: load the history and run the engine on it
Engine(p, outcomes) ==
  /\ pc[p] = "engine"
  /\ LET s == h[p].session
         eet == EngineEventType(h[p].event_type, s.stage, h[p].now - s.stage_started_at)
     IN  h' = [h EXCEPT ![p].out =
                  Returned(run_engine(s.candidate_name, s.role, eet,
                                      h[p].user_text, messages, s.stage, outcomes))]
  /\ pc' = [pc EXCEPT ![p] = "agent"]
  /\ UNCHANGED <<session, messages, clock, resp, first_reply, epoch>>
  /\ UNCHANGED <<call, result, agent>>

\* StoreAgent writing over the newest row
StoreAgent_overwrite(p) ==
  /\ pc[p] = "agent"
  /\ messages' = [messages EXCEPT ![Len(messages)] =
                    Message("agent", h[p].out.next_stage, h[p].out.assistant_text,
                            h[p].event_id)]
  /\ pc' = [pc EXCEPT ![p] = "save"]
  /\ UNCHANGED <<session, clock, h, resp, first_reply, epoch>>
  /\ UNCHANGED <<call, result, agent>>

\* views.py:209-217: store the agent message, tagged with next_stage
StoreAgent(p) ==
  /\ pc[p] = "agent"
  /\ messages' = Append(messages,
                   Message("agent", h[p].out.next_stage, h[p].out.assistant_text,
                           h[p].event_id))
  /\ pc' = [pc EXCEPT ![p] = "save"]
  /\ UNCHANGED <<session, clock, h, resp, first_reply, epoch>>
  /\ UNCHANGED <<call, result, agent>>

\* views.py:219-232: advance the stage, save the session, respond
SaveSession(p) ==
  /\ pc[p] = "save"
  /\ LET s == h[p].session
         out == h[p].out
         stage_changed == out.next_stage # s.stage
     IN  /\ session' = [session EXCEPT
                          !.stage = out.next_stage,
                          !.stage_started_at =
                             IF stage_changed THEN h[p].now ELSE s.stage_started_at,
                          !.status = IF out.done THEN "ended" ELSE @]
         /\ resp' = [resp EXCEPT ![p] =
                       OkResp(out.assistant_text, out.next_stage, out.done)]
  /\ pc' = [pc EXCEPT ![p] = "respond"]
  /\ UNCHANGED <<messages, clock, h, first_reply, epoch>>
  /\ UNCHANGED <<call, result, agent>>

\* the response leaves for the caller, and the handler is free again
Return(p) ==
  /\ pc[p] = "respond"
  /\ first_reply' = IF resp[p].status = 200
                     THEN NoteReply(h[p].event_id, resp[p].assistant_text)
                     ELSE first_reply
  /\ pc' = [pc EXCEPT ![p] = "idle"]
  /\ h' = [h EXCEPT ![p] = NoLocals]
  /\ resp' = [resp EXCEPT ![p] = NoResp]
  /\ epoch' = Closed(p)
  /\ UNCHANGED <<session, messages, clock>>
  /\ UNCHANGED <<call, result, agent>>

\* the rows a request of this type adds: a user_turn stores the utterance too
RowsOf(event_type) == IF event_type \in {"user_turn", ""} THEN 2 ELSE 1

RECURSIVE RowsPending(_)
RowsPending(ps) ==
  IF ps = {} THEN 0
  ELSE LET p == CHOOSE q \in ps : TRUE
           rows == IF pc[p] \in {"mark", "idem", "user"} THEN RowsOf(h[p].event_type)
                   ELSE IF pc[p] \in {"engine", "agent"} THEN 1
                   ELSE 0
       IN  rows + RowsPending(ps \ {p})

\* rows in the table plus the rows the handlers in flight may still add
RowsInFlight == Len(messages) + RowsPending(Procs)

\* a request reaches handler p while the table has room for its rows
Arrive(p, room) ==
  \E event_type \in PayloadEventTypes, user_text \in PayloadUserTexts,
     event_id \in PayloadEventIds :
       /\ RowsInFlight + RowsOf(event_type) <= room
       /\ Receive(p, event_type, user_text, event_id)

ArriveBad(p) == \E form \in BadForms : Reject(p, form)

CallBackend(p) == \E outcomes \in BackendRuns : Engine(p, outcomes)

\* the caller delivers one request at a time and waits for its response
NextSerial ==
  \/ Tick
  \/ Arrive("p1", MaxMessages)
  \/ ArriveBad("p1")
  \/ MarkRunning("p1")
  \/ Idempotency("p1")
  \/ StoreUser("p1")
  \/ CallBackend("p1")
  \/ StoreAgent("p1")
  \/ SaveSession("p1")
  \/ Return("p1")

SpecSerial == Init /\ [][NextSerial]_vars

\* requests are delivered while earlier ones are still being handled, within
\* one reading of the clock
NextConcurrent ==
  \/ \E p \in Procs : Len(epoch.requests) < MaxBurst /\ Arrive(p, MaxMessagesConcurrent)
  \/ \E p \in Procs : Len(epoch.requests) < MaxBurst /\ ArriveBad(p)
  \/ \E p \in Procs : MarkRunning(p)
  \/ \E p \in Procs : Idempotency(p)
  \/ \E p \in Procs : StoreUser(p)
  \/ \E p \in Procs : CallBackend(p)
  \/ \E p \in Procs : StoreAgent(p)
  \/ \E p \in Procs : SaveSession(p)
  \/ \E p \in Procs : Return(p)

SpecConcurrent == Init /\ [][NextConcurrent]_vars

\* requests are delivered while earlier ones are still being handled, and the
\* clock moves between them
NextOverlapped ==
  \/ Tick
  \/ \E p \in Procs : Len(epoch.requests) < MaxBurst /\ Arrive(p, MaxMessagesOverlapped)
  \/ \E p \in Procs : Len(epoch.requests) < MaxBurst /\ ArriveBad(p)
  \/ \E p \in Procs : MarkRunning(p)
  \/ \E p \in Procs : Idempotency(p)
  \/ \E p \in Procs : StoreUser(p)
  \/ \E p \in Procs : CallBackend(p)
  \/ \E p \in Procs : StoreAgent(p)
  \/ \E p \in Procs : SaveSession(p)
  \/ \E p \in Procs : Return(p)

SpecOverlapped == Init /\ [][NextOverlapped]_vars

(***************************************************************************)
(* run_engine called on its own, on any history of at most MaxHistory rows. *)
(***************************************************************************)
HistoryRows ==
  { Message(role, stage, <<"t">>, "") : role \in {"user", "agent"}, stage \in Stages }

RECURSIVE Histories(_)
Histories(n) ==
  IF n = 0 THEN { <<>> }
  ELSE LET shorter == Histories(n - 1)
       IN  shorter \cup { Append(hist, row) : hist \in shorter, row \in HistoryRows }

EngineCalls ==
  [ event_type : EventTypes, user_text : { <<>>, <<"h", "i">> },
    history : Histories(MaxHistory), session_stage : Stages, outcomes : BackendRuns ]

InitEngine ==
  /\ InitHandler
  /\ call \in EngineCalls
  /\ result = NoOut
  /\ agent = NewAgent

CallEngine ==
  /\ call # NoCall
  /\ result = NoOut
  /\ result' = run_engine(session.candidate_name, session.role, call.event_type,
                          call.user_text, call.history, call.session_stage, call.outcomes)
                 @@ BackendRequest(call.event_type, call.user_text, call.history,
                                   call.session_stage)
  /\ UNCHANGED <<call, hvars, agent>>

NextEngine == CallEngine

SpecEngine == InitEngine /\ [][NextEngine]_vars

(***************************************************************************)
(* run_engine called on its own on the texts it can be handed: the replies *)
(* of the backend, put together from at most MaxChunks pieces, and the     *)
(* candidate names and roles a session can be created with.                *)
(***************************************************************************)
Chunks ==
  { Sig("STAY"), Sig("MOVE_TO_EXPERIENCE"), Sig("MOVE_TO_DONE"),
    <<"<", "<", "<">>, <<">", ">", ">">>, <<"STAY">>,
    <<"o", "k">>, <<".">>, <<" ">>, <<"\n">>, BoldLabel, PlainLabel }

RECURSIVE Texts(_)
Texts(n) ==
  IF n = 0 THEN { <<>> }
  ELSE LET shorter == Texts(n - 1)
       IN  shorter \cup { t \o c : t \in shorter, c \in Chunks }

PayloadNames == { <<>>, <<"A", "n", "n">>, Sig("MOVE_TO_DONE") }
PayloadRoles == { <<>>, <<"d", "e", "v">> }

\* the first candidate model answers with the reply
ReplyCalls ==
  [ event_type : {"user_turn", "timeout"}, user_text : { <<"h", "i">> },
    history : { <<>> }, session_stage : Stages,
    outcomes : { <<Ok(t)>> \o [k \in 1..(Len(MODEL_FALLBACKS) - 1) |-> OtherError] :
                   t \in Texts(MaxChunks) } ]

NameCalls ==
  [ event_type : EventTypes, user_text : { <<>>, <<"h", "i">> },
    history : Histories(1), session_stage : Stages, outcomes : BackendRuns ]

\* the rows a history is made of: the system row, user and agent rows whose
\* text is blank, plain, a signal token, or a labelled reply with its signal
NormalizerRows ==
  { Message("system", "intro", <<"Session created.">>, "") }
    \cup { Message("user", "intro", t, "") : t \in { <<" ">>, <<"o", "k">>, Sig("STAY") } }
    \cup { Message("agent", "intro", t, "") :
             t \in { <<" ">>, <<"o", "k">>, Sig("STAY"),
                     PlainLabel \o <<" ">> \o <<"o", "k">> \o Sig("STAY") } }

RECURSIVE HistoriesOf(_, _)
HistoriesOf(rows, n) ==
  IF n = 0 THEN { <<>> }
  ELSE LET shorter == HistoriesOf(rows, n - 1)
       IN  shorter \cup { Append(hist, row) : hist \in shorter, row \in rows }

HistoryCalls ==
  [ event_type : EventTypes, user_text : { <<>>, <<"h", "i">> },
    history : HistoriesOf(NormalizerRows, MaxHistory), session_stage : Stages,
    outcomes : { <<Ok(<<"o", "k">> \o Sig("STAY"))>>
                   \o [k \in 1..(Len(MODEL_FALLBACKS) - 1) |-> OtherError] } ]

InitText ==
  /\ result = NoOut
  /\ agent = NewAgent
  /\ \/ InitHandler /\ call \in ReplyCalls
     \/ InitHandler /\ call \in HistoryCalls
     \/ \E candidate_name \in PayloadNames, role \in PayloadRoles :
          InitSession(candidate_name, role) /\ call \in NameCalls

SpecText == InitText /\ [][NextEngine]_vars

(***************************************************************************)
(* The voice agent, agent.RouterAgent.  The framework calls on_enter once, *)
(* on_user_turn_completed when the user has finished speaking and llm_node *)
(* when a reply is to be produced, in any order; a callback runs until its *)
(* `await call_engine`, and goes on when the backend has answered.         *)
(***************************************************************************)
Transcripts == { <<>>, <<" ">>, <<"h", "i">>, <<"y", "o">> }

\* what the backend answers to a request: a JSON body or an HTTP error
EngineAnswers ==
  { [status |-> 200, assistant_text |-> <<"o", "k">>],
    [status |-> 200, assistant_text |-> <<" ">>],
    [status |-> 500, assistant_text |-> <<>>] }

\* agent.call_engine up to its POST: the request is sent and awaited
Posted(event_type, user_text, turn) ==
  [agent EXCEPT !.sent = Append(@, [event_type |-> event_type, user_text |-> user_text,
                                    turn |-> turn]),
                !.awaited = @ \cup {Len(agent.sent) + 1}]

\* RouterAgent.on_enter up to its await: the interview is started
OnEnter ==
  /\ ~agent._did_start
  /\ agent' = [Posted("start", <<>>, 0) EXCEPT !._did_start = TRUE]
  /\ UNCHANGED <<hvars, call, result>>

\* RouterAgent.on_user_turn_completed: the final transcript is kept
OnUserTurnCompleted(text_content) ==
  /\ Len(agent.turns) < MaxTurns
  /\ agent' = [agent EXCEPT !._pending_user_text = Strip(text_content),
                            !.pending_turn = Len(agent.turns) + 1,
                            !.turns = Append(@, Strip(text_content))]
  /\ UNCHANGED <<hvars, call, result>>

\* RouterAgent.llm_node up to its await: the pending transcript is read and
\* cleared, and sent to the backend if it is not empty
LlmNode ==
  /\ LET user_text == IF agent._pending_user_text = None THEN <<>>
                      ELSE Strip(agent._pending_user_text)
         posted == IF user_text = <<>> THEN agent
                   ELSE Posted("user_turn", user_text, agent.pending_turn)
     IN  agent' = [posted EXCEPT !._pending_user_text = None, !.pending_turn = 0]
  /\ UNCHANGED <<hvars, call, result>>

\* agent.call_engine from the answer on, and what on_enter and llm_node do
\* with it: an error status raises, a text that is not blank is spoken
CallEngineReturns(i, answer) ==
  /\ i \in agent.awaited
  /\ agent' = [agent EXCEPT
                 !.awaited = @ \ {i},
                 !.spoken = IF answer.status < 400 /\ Strip(answer.assistant_text) # <<>>
                            THEN Append(@, Strip(answer.assistant_text))
                            ELSE @]
  /\ UNCHANGED <<hvars, call, result>>

NextAgent ==
  \/ OnEnter
  \/ \E text_content \in Transcripts : OnUserTurnCompleted(text_content)
  \/ LlmNode
  \/ \E i \in agent.awaited, answer \in EngineAnswers : CallEngineReturns(i, answer)

SpecAgent == Init /\ [][NextAgent]_vars

(***************************************************************************)
(* _handle_next_turn run from its first line to its last with nothing in   *)
(* between: the stage and rows it can leave, over every answer of the      *)
(* backend and every reading of the clock.                                 *)
(***************************************************************************)
SerialHandle(db, request) ==
  IF request.event_type = "" THEN {db}
  ELSE IF EventSeen(db.messages, request.event_id) THEN {db}
  ELSE IF request.event_type = "user_turn" /\ request.user_text = <<>> THEN {db}
  ELSE LET rows == IF request.event_type = "user_turn"
                   THEN Append(db.messages,
                          Message("user", db.stage, request.user_text, request.event_id))
                   ELSE db.messages
           types == {request.event_type}
                      \cup (IF db.stage = "done" THEN {} ELSE {"timeout"})
           outs == { Returned(run_engine(session.candidate_name, session.role, et,
                                         request.user_text, rows, db.stage, o)) :
                       et \in types, o \in BackendRuns }
       IN  { [ stage |-> out.next_stage,
               messages |-> Append(rows, Message("agent", out.next_stage,
                                                 out.assistant_text, request.event_id)) ] :
             out \in outs }

\* the role and stage tag of each row
Tags(msgs) == [i \in 1..Len(msgs) |-> <<msgs[i].role, msgs[i].stage>>]

\* what the two requests of an epoch leave when handled one after the other
SerialResults(ep, rows) ==
  LET db0 == [stage |-> ep.stage, messages |-> SubSeq(rows, 1, ep.rows)]
      after(first, second) ==
        UNION { SerialHandle(db1, second) : db1 \in SerialHandle(db0, first) }
  IN  { [stage |-> db.stage, tags |-> Tags(db.messages)] :
          db \in after(ep.requests[1], ep.requests[2])
                   \cup after(ep.requests[2], ep.requests[1]) }

Quiet(pcs) == \A p \in Procs : pcs[p] = "idle"

AgentRows(msgs, stage) == _count(msgs, "agent", stage)
AgentReplies(msgs) == Cardinality({ i \in 1..Len(msgs) : msgs[i].role = "agent" })

(***************************************************************************)
(* The claims.                                                             *)
(***************************************************************************)

\* C1: over serialized handler invocations the stored stage never moves to an
\* earlier stage of intro -> experience -> done.
C1_StageOnlyForward ==
  [][StageRank(session'.stage) >= StageRank(session.stage)]_vars

\* a session that went through the three stages
C1_Witness ==
  /\ session.stage = "done"
  /\ AgentRows(messages, "intro") > 0
  /\ AgentRows(messages, "experience") > 0

\* C2: an invocation that loads a session at stage done gets from run_engine
\* the fixed "already complete" result, with no candidate model called
\* whatever the backend would answer, for every event type, and once the
\* stored stage is done it stays done.
C2_DoneAbsorbing ==
  [][ /\ session.stage = "done" => session'.stage = "done"
      /\ \A p \in Procs :
           (pc[p] = "engine" /\ h[p].session.stage = "done" /\ pc'[p] = "agent") =>
             /\ h'[p].out = [assistant_text |-> ALREADY_COMPLETE,
                             next_stage |-> "done", done |-> TRUE]
             /\ \A et \in EventTypes, o \in BackendRuns :
                  run_engine(h[p].session.candidate_name, h[p].session.role,
                             et, h[p].user_text, messages,
                             h[p].session.stage, o).called = <<>> ]_vars

\* a handler that ran the engine on a session already done
C2_Witness ==
  /\ pc["p1"] = "agent"
  /\ h["p1"].session.stage = "done"
  /\ h["p1"].out.assistant_text = ALREADY_COMPLETE
  /\ session.stage = "done"

\* C3: a success response to an event_id carries the assistant_text of the
\* first success response to that event_id.
C3_SameEventSameText ==
  \A p \in Procs :
    ( /\ pc[p] = "respond"
      /\ resp[p].status = 200
      /\ h[p].event_id \in EventIds
      /\ first_reply[h[p].event_id] # NoReply )
    => resp[p].assistant_text = first_reply[h[p].event_id]

\* C4: a handler whose event_id already tags a stored message answers without
\* running the engine, stores no message and leaves the session as it is.
C4_DuplicateChangesNothing ==
  [][ \A p \in Procs :
        ( /\ pc[p] = "idem"
          /\ h[p].event_id # ""
          /\ \E i \in 1..Len(messages) : messages[i].event_id = h[p].event_id
          /\ pc'[p] # "idem" )
        => /\ pc'[p] = "respond"
           /\ resp'[p].status = 200
           /\ messages' = messages
           /\ session' = session ]_vars

\* a redelivered event answered from the stored messages
C4_Witness ==
  /\ pc["p1"] = "respond"
  /\ resp["p1"].status = 200
  /\ h["p1"].event_id = "e1"
  /\ h["p1"].out = NoReturn
  /\ \E i \in 1..Len(messages) : messages[i].role = "agent" /\ messages[i].event_id = "e1"

\* C5: at most one agent message is stored for an event_id.
C5_OneAgentRowPerEvent ==
  \A e \in EventIds :
    Cardinality({ i \in 1..Len(messages) :
                    messages[i].role = "agent" /\ messages[i].event_id = e }) <= 1

\* C6: when two overlapping invocations have both returned, the stored stage
\* and the rows with their stage tags are what handling the two requests one
\* after the other, in one of the two orders, can leave.
C6_Serializable ==
  [][ (Len(epoch.requests) = 2 /\ ~Quiet(pc) /\ Quiet(pc'))
        => [stage |-> session'.stage, tags |-> Tags(messages')]
             \in SerialResults(epoch, messages') ]_vars

\* C7: the agent messages tagged intro number at most MAX_INTRO_TURNS, those
\* tagged experience at most MAX_EXP_TURNS.
C7_CeilingsHold ==
  /\ AgentRows(messages, "intro") <= MAX_INTRO_TURNS
  /\ AgentRows(messages, "experience") <= MAX_EXP_TURNS

\* C8: once the history holds MAX_INTRO_TURNS + MAX_EXP_TURNS agent replies,
\* the engine run on the stored stage and history returns next_stage done,
\* whatever the event and the backend's answers.
C8_CompletionForced ==
  (Quiet(pc) /\ AgentReplies(messages) >= MAX_INTRO_TURNS + MAX_EXP_TURNS)
    => \A et \in EventTypes, o \in BackendRuns :
         run_engine(session.candidate_name, session.role, et, <<"h", "i">>,
                    messages, session.stage, o).next_stage = "done"

\* C9: in every result of run_engine, done is true exactly when next_stage is
\* done.
C9_DoneIffStageDone ==
  result.done <=> (result.next_stage = "done")

\* the guard took the stage to done and the model said STAY
C9_Witness ==
  /\ call.session_stage = "experience"
  /\ result.stage = "done"
  /\ result.signal = "STAY"
  /\ result.done

\* the table of section 4.6 of the specification
TransitionTable(stage, signal) ==
  CASE stage = "intro" /\ signal = "STAY" -> "intro"
    [] stage = "intro" /\ signal = "MOVE_TO_EXPERIENCE" -> "experience"
    [] stage = "intro" /\ signal = "MOVE_TO_DONE" -> "done"
    [] stage = "experience" /\ signal = "STAY" -> "experience"
    [] stage = "experience" /\ signal = "MOVE_TO_EXPERIENCE" -> "experience"
    [] stage = "experience" /\ signal = "MOVE_TO_DONE" -> "done"
    [] stage = "done" -> "done"

\* C10: next_stage is the table's entry for the post-guard stage and the
\* parsed signal.
C10_NextStageIsTable ==
  result # NoOut =>
    result.next_stage = TransitionTable(result.stage, result.signal)

\* MOVE_TO_DONE taken at post-guard stage intro
C10_Witness ==
  /\ result # NoOut
  /\ result.stage = "intro"
  /\ result.signal = "MOVE_TO_DONE"
  /\ result.next_stage = "done"

\* C11: a stage forced forward by the guard overrides the model: on a timeout
\* event, or with the agent records of the stage at their ceiling, next_stage
\* is past the stage the session was loaded with, whatever the signal; from
\* experience it is done.
C11_GuardOverridesModel ==
  result # NoOut =>
    LET forced ==
          \/ call.event_type = "timeout"
          \/ /\ call.session_stage = "intro"
             /\ AgentRows(call.history, "intro") >= MAX_INTRO_TURNS
          \/ /\ call.session_stage = "experience"
             /\ AgentRows(call.history, "experience") >= MAX_EXP_TURNS
    IN  /\ (forced /\ call.session_stage = "intro") =>
              result.next_stage \in {"experience", "done"}
        /\ (forced /\ call.session_stage = "experience") => result.next_stage = "done"
        /\ StageRank(result.next_stage) >= StageRank(call.session_stage)

\* a timeout at intro, no ceiling reached, answered with STAY
C11_Witness ==
  /\ result # NoOut
  /\ call.session_stage = "intro"
  /\ call.event_type = "timeout"
  /\ AgentRows(call.history, "intro") < MAX_INTRO_TURNS
  /\ result.signal = "STAY"
  /\ result.next_stage = "experience"

\* C12: whatever the backend answers to each candidate model (success,
\* rate-limit-class error, any other error), run_engine returns a result with
\* a spoken text, a next_stage among intro, experience, done, and a Boolean
\* done.
C12_BackendNeverSurfaces ==
  result # NoOut =>
    /\ result.assistant_text # <<>>
    /\ result.next_stage \in Stages
    /\ result.done \in BOOLEAN

\* every candidate model was tried and every one was rate-limited
C12_Witness ==
  /\ result # NoOut
  /\ \A k \in 1..Len(MODEL_FALLBACKS) : call.outcomes[k] = RateLimited
  /\ Len(result.called) = Len(MODEL_FALLBACKS)
  /\ result.assistant_text # <<>>
  /\ result.next_stage \in Stages

\* the attempt that ends the loop: the first candidate whose answer is not a
\* rate-limit-class error, the last candidate if there is none
LastAttempt(outcomes) ==
  LET stops == { k \in 1..Len(outcomes) : outcomes[k].kind # "rate" }
  IN  IF stops = {} THEN Len(outcomes) ELSE CHOOSE k \in stops : \A j \in stops : k <= j

\* C13: the candidate models are called in list order up to the first answer
\* that is not a rate-limit-class error and none after it; a success gives
\* the reply its text, and the canned reply is used exactly when the last
\* attempt ended in an error.
C13_OrderedEarlyExit ==
  (result # NoOut /\ call.session_stage # "done") =>
    LET n == LastAttempt(call.outcomes)
        last == call.outcomes[n]
        canned == CannedReply(result.stage, session.candidate_name, session.role)
        used == IF last.kind = "ok" THEN last.text ELSE canned
    IN  /\ result.called = [k \in 1..n |-> k]
        /\ result.signal = _parse(used).signal
        /\ \/ result.assistant_text = _parse(used).clean
           \/ /\ TextLen(_parse(used).clean) < 3
              /\ result.assistant_text \in {GENERIC_EXPERIENCE, GENERIC_OTHER}

\* the first candidate is rate-limited and the second answers
C13_Witness ==
  /\ result # NoOut
  /\ call.session_stage # "done"
  /\ call.outcomes[1] = RateLimited
  /\ call.outcomes[2].kind = "ok"
  /\ result.called = <<1, 2>>
  /\ result.assistant_text = _parse(call.outcomes[2].text).clean

\* C14: when the loop over the candidate models ends in an error, the canned
\* reply gives a spoken text and carries STAY at post-guard stage intro or
\* experience and MOVE_TO_DONE at done: next_stage is the post-guard stage
\* and done is true exactly when that stage is done.
C14_CannedReplyKeepsStage ==
  ( /\ result # NoOut
    /\ call.session_stage # "done"
    /\ call.outcomes[LastAttempt(call.outcomes)].kind # "ok" )
  => /\ result.assistant_text # <<>>
     /\ result.signal = (IF result.stage = "done" THEN "MOVE_TO_DONE" ELSE "STAY")
     /\ result.next_stage = result.stage
     /\ result.done <=> (result.stage = "done")

\* C15: run_engine never returns an empty spoken text: assistant_text has at
\* least 3 characters for every reply of the backend, a reply whose visible
\* text (signal tokens and a leading speaker label taken out, trimmed) is
\* shorter being answered with the generic prompt of the post-guard stage.
C15_SpokenTextAtLeastThree ==
  result # NoOut =>
    /\ TextLen(result.assistant_text) >= 3
    /\ ( /\ call.session_stage # "done"
         /\ call.outcomes[1].kind = "ok"
         /\ TextLen(StripLabels(Strip(RemoveSignals(call.outcomes[1].text)))) < 3 )
       => result.assistant_text =
            (IF result.stage = "experience" THEN GENERIC_EXPERIENCE ELSE GENERIC_OTHER)

\* a reply that is a speaker label and two characters before its signal
C15_Witness ==
  /\ result # NoOut
  /\ call.session_stage = "experience"
  /\ call.outcomes[1] = Ok(PlainLabel \o <<" ">> \o <<"o", "k">> \o Sig("STAY"))
  /\ result.assistant_text = GENERIC_EXPERIENCE

\* C16: a request on the stored session that is well-formed (an event type
\* and, for a user_turn, a text) is answered with a success response, and
\* every success response carries a non-empty assistant_text and a stage
\* among intro, experience, done; a redelivered event_id included.
C16_AlwaysASpokenLine ==
  \A p \in Procs :
    pc[p] = "respond" =>
      /\ ( /\ h[p].event_type # ""
           /\ (h[p].event_type = "user_turn" => h[p].user_text # <<>>) )
         => resp[p].status = 200
      /\ resp[p].status = 200 =>
           /\ resp[p].assistant_text # <<>>
           /\ resp[p].stage \in Stages

\* C17: the signal taken from a reply is the word of the first signal token
\* in it, STAY when it has none; the spoken text contains no signal token;
\* and a reply without a token leaves next_stage at the post-guard stage.
C17_SignalParsedAndHidden ==
  (result # NoOut /\ call.session_stage # "done") =>
    LET last == call.outcomes[LastAttempt(call.outcomes)]
        raw == IF last.kind = "ok" THEN last.text
               ELSE CannedReply(result.stage, session.candidate_name, session.role)
        tokens == { i \in 1..Len(raw) : SignalAt(raw, i) }
    IN  /\ \A i \in tokens : (\A j \in tokens : i <= j) => result.signal = raw[i + 3]
        /\ tokens = {} => (result.signal = "STAY" /\ result.next_stage = result.stage)
        /\ \A i \in 1..Len(result.assistant_text) : ~SignalAt(result.assistant_text, i)

\* no two turns next to each other have the same role
Alternates(turns) ==
  \A i \in 1..(Len(turns) - 1) : turns[i].role # turns[i + 1].role

\* C18 as stated: for every history the output of _build_contents has no two
\* adjacent entries of equal role and, when it is not empty, starts with a
\* user entry.
C18_NormalizedStartsWithUser ==
  (result # NoOut /\ call.session_stage # "done") =>
    /\ Alternates(result.normalized)
    /\ result.normalized # <<>> => result.normalized[1].role = "user"

\* C18 amended: for every history the output of _build_contents has no two
\* adjacent entries of equal role, every entry has role user or model and a
\* text, and its first entry is a model entry exactly when the first record
\* of the history that is kept is an agent record; the sequence handed to
\* the backend is the one that starts with a user entry.
C18_NormalizedAlternates ==
  (result # NoOut /\ call.session_stage # "done") =>
    LET kept == RawTurns(call.history)
    IN  /\ Alternates(result.normalized)
        /\ \A i \in 1..Len(result.normalized) :
             /\ result.normalized[i].role \in {"user", "model"}
             /\ result.normalized[i].text # <<>>
        /\ (result.normalized = <<>>) <=> (kept = <<>>)
        /\ kept # <<>> => result.normalized[1].role = kept[1].role
        /\ result.contents[1].role = "user"

\* a history of the system row and two agent rows: one model entry, first
C18_Witness ==
  /\ result # NoOut
  /\ call.session_stage # "done"
  /\ Len(call.history) = 3
  /\ call.history[1].role = "system"
  /\ call.history[2].role = "agent"
  /\ call.history[3].role = "agent"
  /\ result.normalized = <<Turn("model", <<"o", "k", "\n", "o", "k">>)>>

\* text ends with the message, alone or after a newline
EndsWith(text, msg) ==
  \/ text = msg
  \/ /\ Len(text) > Len(msg)
     /\ SubSeq(text, Len(text) - Len(msg), Len(text)) = <<"\n">> \o msg

\* C19: for every history and event, the sequence handed to the backend is
\* not empty, starts with a user entry (the opener, when the normalized
\* history starts with a model entry), ends with a user entry that ends in
\* the new message, and has no two adjacent entries of equal role.
C19_BackendSequenceWellFormed ==
  (result # NoOut /\ call.session_stage # "done") =>
    LET contents == result.contents
        n == Len(contents)
        user_msg == UserMsg(call.event_type, call.user_text, call.session_stage, result.stage)
    IN  /\ n > 0
        /\ contents[1].role = "user"
        /\ (result.normalized # <<>> /\ result.normalized[1].role = "model")
             => /\ contents[1] = Turn("user", OPENER)
                /\ contents[2].role = "model"
        /\ contents[n].role = "user"
        /\ EndsWith(contents[n].text, user_msg)
        /\ (call.event_type = "user_turn" /\ call.user_text # <<>>)
             => EndsWith(contents[n].text, call.user_text)
        /\ Alternates(contents)

\* an agent row then a user row, and a user_turn: the opener goes first and
\* the new message is joined to the trailing user entry
C19_Witness ==
  /\ result # NoOut
  /\ call.session_stage # "done"
  /\ call.event_type = "user_turn"
  /\ call.user_text = <<"h", "i">>
  /\ result.contents = << Turn("user", OPENER), Turn("model", <<"o", "k">>),
                          Turn("user", <<"o", "k", "\n", "h", "i">>) >>

\* C20: with one invocation handled at a time, no step changes or removes a
\* stored record, and when an invocation responds the records added since it
\* was received are: the user record then the agent record for a user_turn
\* that ran the engine, the agent record alone for any other event that ran
\* the engine, and none for a redelivery or a rejected request.
C20_AppendOnlyExactRows ==
  [][ /\ Len(messages') >= Len(messages)
      /\ SubSeq(messages', 1, Len(messages)) = messages
      /\ \A p \in Procs :
           (pc[p] # "respond" /\ pc'[p] = "respond") =>
             LET added == SubSeq(messages', epoch'.rows + 1, Len(messages'))
                 user_row == Message("user", h[p].session.stage, h[p].user_text,
                                     h[p].event_id)
                 agent_row == Message("agent", h[p].out.next_stage,
                                      h[p].out.assistant_text, h[p].event_id)
             IN  IF pc[p] = "save"
                 THEN added = (IF h[p].event_type = "user_turn" THEN <<user_row>> ELSE <<>>)
                                \o <<agent_row>>
                 ELSE added = <<>>
    ]_vars

\* a user_turn has run the engine and is about to respond: two more records
C20_Witness ==
  /\ pc["p1"] = "respond"
  /\ resp["p1"].status = 200
  /\ h["p1"].event_type = "user_turn"
  /\ Len(messages) = epoch.rows + 2
  /\ messages[Len(messages) - 1].role = "user"
  /\ messages[Len(messages)].role = "agent"
  /\ messages[Len(messages)].text = resp["p1"].assistant_text

\* C21: a payload that is not JSON, has no session_id or names no session,
\* and a user_turn with an empty user_text whose event_id was not seen
\* before, are answered with an error; run_engine is not called, no message
\* row is stored and the stage of the session stays as it was.
C21_MalformedStopsAtBoundary ==
  [][ \A p \in Procs :
        LET empty_turn == /\ pc[p] = "idem"
                          /\ pc'[p] # "idem"
                          /\ h[p].event_type = "user_turn"
                          /\ h[p].user_text = <<>>
                          /\ ~EventSeen(messages, h[p].event_id)
            bad_payload == pc[p] = "idle" /\ pc'[p] = "respond"
        IN  (empty_turn \/ bad_payload) =>
              /\ pc'[p] = "respond"
              /\ resp'[p].status \in {400, 404}
              /\ empty_turn => resp'[p].status = 400
              /\ h'[p].out = NoReturn
              /\ messages' = messages
              /\ Len(messages') = epoch'.rows
              /\ session'.stage = session.stage
              /\ session'.stage = epoch'.stage
    ]_vars

\* a user_turn without text, in the experience stage of a running interview,
\* has been answered with an error
C21_Witness ==
  /\ pc["p1"] = "respond"
  /\ resp["p1"].status = 400
  /\ h["p1"].event_type = "user_turn"
  /\ h["p1"].user_text = <<>>
  /\ session.stage = "experience"
  /\ Len(messages) = epoch.rows
  /\ Len(messages) >= 3

\* the session a handler loaded has been in its stage for the timeout of
\* that stage or longer
StageTimedOut(p) ==
  LET s == h[p].session
      elapsed_s == h[p].now - s.stage_started_at
  IN  \/ s.stage = "intro" /\ elapsed_s >= INTRO_TIMEOUT_S
      \/ s.stage = "experience" /\ elapsed_s >= EXPERIENCE_TIMEOUT_S

\* C22: when an accepted event is handled for a session that has been in
\* intro or experience for that stage's timeout or longer, run_engine is
\* called with event type timeout whatever the event type of the request,
\* and the stage saved by that invocation is strictly later than the stage
\* before it.
C22_TimeoutOverride ==
  [][ \A p \in Procs :
        /\ (pc[p] = "engine" /\ pc'[p] = "agent" /\ StageTimedOut(p)) =>
             LET s == h[p].session
             IN  /\ h'[p].out \in
                      { Returned(run_engine(s.candidate_name, s.role, "timeout",
                                            h[p].user_text, messages, s.stage, o)) :
                          o \in BackendRuns }
                 /\ StageRank(h'[p].out.next_stage) > StageRank(s.stage)
        /\ (pc[p] = "save" /\ pc'[p] = "respond" /\ StageTimedOut(p)) =>
             /\ session'.stage = h[p].out.next_stage
             /\ StageRank(session'.stage) > StageRank(h[p].session.stage)
    ]_vars

\* the first request of a session is a user_turn that arrives after the
\* intro timeout: no agent row is counted, and the stage saved is experience
C22_Witness ==
  /\ pc["p1"] = "respond"
  /\ resp["p1"].status = 200
  /\ h["p1"].event_type = "user_turn"
  /\ h["p1"].session.stage = "intro"
  /\ StageTimedOut("p1")
  /\ Len(messages) = 3
  /\ messages[3].role = "agent"
  /\ session.stage = "experience"

\* the event type handler p called run_engine with
EventTypeOf(p) ==
  EngineEventType(h[p].event_type, h[p].session.stage,
                  h[p].now - h[p].session.stage_started_at)

\* the timeout guard, the count guard fire on what handler p called
\* run_engine with
TimeoutFires(p) == TimeoutGuard(h[p].session.stage, EventTypeOf(p)) # h[p].session.stage
CountFires(p) == CountGuard(h[p].session.stage, messages) # h[p].session.stage

\* C23 as stated: with one invocation at a time, when the timeout guard, the
\* count guard or both fire, the post-guard stage is one step after the
\* stage of the session, never intro -> done, and is the same whichever of
\* the two guards is applied first.
C23_GuardOrderIrrelevant ==
  \A p \in Procs :
    (pc[p] = "agent" /\ h[p].session.stage # "done" /\ (TimeoutFires(p) \/ CountFires(p))) =>
      LET s == h[p].session
          post == PostGuardStage(s.stage, EventTypeOf(p), messages)
      IN  /\ StageRank(post) = StageRank(s.stage) + 1
          /\ post = TimeoutGuard(CountGuard(s.stage, messages), EventTypeOf(p))

\* C23 amended: with one invocation at a time, when the timeout guard, the
\* count guard or both fire, the post-guard stage is one step after the
\* stage of the session, never intro -> done, and when neither fires it is
\* the stage of the session; the stage run_engine returns is not before it.
\* The timeout guard is the one applied first.
C23_GuardsForceOneStep ==
  \A p \in Procs :
    (pc[p] = "agent" /\ h[p].session.stage # "done") =>
      LET s == h[p].session
          post == PostGuardStage(s.stage, EventTypeOf(p), messages)
      IN  /\ (TimeoutFires(p) \/ CountFires(p)) => StageRank(post) = StageRank(s.stage) + 1
          /\ ~(TimeoutFires(p) \/ CountFires(p)) => post = s.stage
          /\ StageRank(h[p].out.next_stage) >= StageRank(post)

\* both guards fire on a session in intro, and the engine has returned
C23_Witness ==
  /\ pc["p1"] = "agent"
  /\ h["p1"].session.stage = "intro"
  /\ TimeoutFires("p1")
  /\ CountFires("p1")
  /\ PostGuardStage("intro", EventTypeOf("p1"), messages) = "experience"
  /\ h["p1"].out.next_stage = "experience"

\* how many times the text occurs in the turns of a sequence
Occurrences(turns, text) ==
  LET hits(i) == { k \in 1..(Len(turns[i].text) - Len(text) + 1) :
                     SubSeq(turns[i].text, k, k + Len(text) - 1) = text }
      RECURSIVE Sum(_)
      Sum(i) == IF i = 0 THEN 0 ELSE Cardinality(hits(i)) + Sum(i - 1)
  IN  Sum(Len(turns))

\* C24: for a user_turn handled by _handle_next_turn, the sequence sent to
\* the backend holds the new utterance once more than the sequence built
\* from the rows stored before the request does.
C24_UtteranceSentOnce ==
  \A p \in Procs :
    (pc[p] = "agent" /\ h[p].event_type = "user_turn") =>
      LET s == h[p].session
          sent == BackendRequest(EventTypeOf(p), h[p].user_text, messages, s.stage).contents
          before == _build_contents(SubSeq(messages, 1, epoch.rows))
      IN  s.stage # "done" =>
            Occurrences(sent, h[p].user_text) = Occurrences(before, h[p].user_text) + 1

\* C25: whenever no invocation is in flight, the status of the session is
\* ended exactly when its stage is done; the status leaves created for
\* running, on the first request handled, and once ended stays ended.
C25_StatusFollowsStage ==
  [][ /\ (\A p \in Procs : pc'[p] = "idle")
          => (session'.status = "ended" <=> session'.stage = "done")
      /\ session.status = "ended" => session'.status = "ended"
      /\ session.status = "running" => session'.status \in {"running", "ended"}
      /\ (session.status = "created" /\ session'.status # "created")
          => (session'.status = "running" /\ \E p \in Procs : pc[p] = "mark")
    ]_vars

\* C26: a step changes stage_started_at only when it changes the stage of the
\* session, and a step that changes the stage sets stage_started_at to the
\* time the invocation making it read when it was received; every other
\* step (a redelivery, a rejected request, a turn that keeps the stage)
\* leaves stage_started_at as it was.
C26_StageStartIsLastChange ==
  [][ /\ session'.stage_started_at # session.stage_started_at
          => session'.stage # session.stage
      /\ session'.stage # session.stage
          => \E p \in Procs : /\ pc[p] = "save"
                              /\ pc'[p] = "respond"
                              /\ session'.stage_started_at = h[p].now
    ]_vars

\* the requests sent for the user turn with this number
RequestsFor(turn) ==
  { i \in 1..Len(agent.sent) :
      agent.sent[i].event_type = "user_turn" /\ agent.sent[i].turn = turn }

\* C27: whatever the order of on_user_turn_completed and llm_node, no
\* user_turn request has an empty text, no completed user turn is sent more
\* than once and what is sent is its transcript, and when no transcript is
\* pending every completed user turn that has a text has been sent exactly
\* once.
C27_EachTurnForwardedOnce ==
  /\ \A i \in 1..Len(agent.sent) :
       agent.sent[i].event_type = "user_turn" =>
         /\ agent.sent[i].user_text # <<>>
         /\ agent.sent[i].turn \in 1..Len(agent.turns)
         /\ agent.sent[i].user_text = agent.turns[agent.sent[i].turn]
  /\ \A turn \in 1..Len(agent.turns) : Cardinality(RequestsFor(turn)) <= 1
  /\ agent._pending_user_text = None =>
       \A turn \in 1..Len(agent.turns) :
         agent.turns[turn] # <<>> => Cardinality(RequestsFor(turn)) = 1

====
